---- MODULE Spec2Model ----
(***************************************************************************)
(* Model of pip's `resolve` command, pip/_internal/commands/resolve.py:    *)
(* ResolveCommand.run, .resolve, ._output and .get_requirements.           *)
(*                                                                         *)
(* The command is single-threaded; `pc` is the position of the one thread  *)
(* of control.  Three entry points are modelled: the whole command (run),  *)
(* a direct call of get_requirements, and a direct call of _output.        *)
(***************************************************************************)
EXTENDS Integers, Sequences, FiniteSets, TLC

VARIABLES
    pc,               \* position of the thread of control
    entry,            \* the method the caller invoked
    args,             \* positional specifiers (List[str])
    options,          \* optparse Values; require_hashes is the mutable field
    require_hashes0,  \* options.require_hashes as it was before the call
    requirements,     \* the list get_requirements builds (reqs in resolve)
    parsed,           \* texts of the input items handed to the parser so far
    raised,           \* the exception that left the invoked method, or NoError
    stdout,           \* lines printed so far
    req_tracker,      \* the requirement-tracking handle
    directory,        \* the TempDirectory of resolve
    preparer,         \* the RequirementPreparer, with the flag it was built from
    resolver,         \* the resolver, with what it was built from
    resolver_calls,   \* number of resolver.resolve invocations
    outcome,          \* what the external resolver will do when invoked
    requirement_set,  \* the resolved set: None or a sequence of entries
    printed,          \* entries of requirement_set already printed by _output
    status            \* what run returned: <<>> while it has not returned

vars == <<pc, entry, args, options, require_hashes0, requirements, parsed, raised,
          stdout, req_tracker, directory, preparer, resolver, resolver_calls,
          outcome, requirement_set, printed, status>>

(***************************************************************************)
(* Bounds of the model.                                                    *)
(***************************************************************************)
\* input items (file lines + positional specifiers + editables) of a direct
\* get_requirements call
MaxItems == 2
\* files per --constraint / --requirement list of such a call
MaxFiles == 2
\* input items of a whole command run
RunItems == 2
\* files per --constraint / --requirement list of a whole command run
RunFiles == 1
\* entries of the resolved set in a whole command run
RunEntries == 1
\* entries of the resolved set handed to _output directly
MaxEntries == 2

None == "None"
NoError == [type |-> "none", msg |-> ""]
SUCCESS == 0

\* self.name of the command
CommandName == "resolve"

Digit == <<"1", "2", "3", "4", "5", "6", "7", "8", "9">>

RECURSIVE Sum(_)
Sum(s) == IF s = <<>> THEN 0 ELSE s[1] + Sum(Tail(s))

SeqsUpTo(S, n) == UNION {[1..k -> S] : k \in 0..n}

RECURSIVE Join(_, _)
\* " ".join(parts)
Join(parts, sep) ==
    IF parts = <<>> THEN ""
    ELSE IF Len(parts) = 1 THEN parts[1]
    ELSE parts[1] \o sep \o Join(Tail(parts), sep)

(***************************************************************************)
(* Inputs.  A file is the sequence of its lines; a line has a kind and a   *)
(* text.  Kinds:                                                           *)
(*   plain   a requirement line                                            *)
(*   hash    a requirement line with --hash options                        *)
(*   bad     a malformed requirement line                                  *)
(*   opt     the option line --require-hashes (yields no requirement)      *)
(*   edit    an editable line (-e ...)                                     *)
(*   nested  a line reached through a nested -c reference                  *)
(* Texts are pairwise distinct, so a dropped, repeated or moved record     *)
(* shows in the result.                                                    *)
(***************************************************************************)
ConstraintKinds == {"plain", "hash", "bad", "opt", "edit"}
RequirementKinds == {"plain", "hash", "bad", "opt", "nested"}
SpecifierKinds == {"plain", "bad"}
\* the kinds of file lines in a whole command run
RunKinds == {"plain", "hash", "bad"}

Shapes(maxFiles, maxItems) ==
    {s \in SeqsUpTo(0..maxItems, maxFiles) : Sum(s) <= maxItems}

Offset(shape, f) == Sum(SubSeq(shape, 1, f - 1))

MkFiles(tag, shape, kinds) ==
    [f \in 1..Len(shape) |->
        [l \in 1..shape[f] |->
            [kind |-> kinds[Offset(shape, f) + l],
             text |-> tag \o Digit[f] \o "." \o Digit[l]]]]

MkSpecifiers(tag, kinds) ==
    [i \in 1..Len(kinds) |-> [kind |-> kinds[i], text |-> tag \o Digit[i]]]

\* options.find_links: empty, or the configured links
FindLinksChoices == {<<>>, <<"./links", "./more">>}

(***************************************************************************)
(* Collaborators of get_requirements that live in pip/_internal/req.       *)
(***************************************************************************)
\* parse_requirements yields one ParsedRequirement per requirement line
ParsedRequirement(line, constraint) ==
    [requirement |-> line.text,
     is_editable |-> line.kind = "edit",
     constraint  |-> constraint \/ line.kind = "nested",
     hashes      |-> line.kind = "hash"]

\* the constructors raise InstallationError on a malformed specifier
Malformed(item) == item.kind = "bad"

InstallationError(item) ==
    [type |-> "InstallationError", msg |-> "Invalid requirement: " \o item.text]

install_req_from_parsed_requirement(parsed_req, user_supplied) ==
    [text             |-> parsed_req.requirement,
     editable         |-> parsed_req.is_editable,
     constraint       |-> parsed_req.constraint,
     user_supplied    |-> user_supplied,
     has_hash_options |-> parsed_req.hashes]

install_req_from_line(req, user_supplied) ==
    [text             |-> req.text,
     editable         |-> FALSE,
     constraint       |-> FALSE,
     user_supplied    |-> user_supplied,
     has_hash_options |-> FALSE]

install_req_from_editable(req, user_supplied) ==
    [text             |-> req.text,
     editable         |-> TRUE,
     constraint       |-> FALSE,
     user_supplied    |-> user_supplied,
     has_hash_options |-> FALSE]

(***************************************************************************)
(* get_requirements.  Its local state while it runs:                       *)
(*   requirements    the list built so far                                 *)
(*   require_hashes  options.require_hashes                                *)
(*   raised          the exception raised, NoError while running           *)
(*   parsed          texts of the items handed to the parser so far        *)
(***************************************************************************)
GrStart(opts) ==
    [requirements |-> <<>>, require_hashes |-> opts.require_hashes,
     raised |-> NoError, parsed |-> <<>>]

\* parse_requirements handles an option line itself and yields nothing for it
IsOptionLine(line) == line.kind = "opt"

\* --require-hashes in a file: parse_requirements sets options.require_hashes
HandleOptionLine(st) == [st EXCEPT !.require_hashes = TRUE]

RECURSIVE FileLinesEagerHashes(_, _, _, _)
\* FileLines, but enabling hash checking as soon as a line with hash options
\* is read
FileLinesEagerHashes(st, lines, constraint, user_supplied) ==
    IF lines = <<>> \/ st.raised # NoError THEN st
    ELSE LET line == Head(lines)
             seen == [st EXCEPT !.parsed = Append(@, line.text)]
             next ==
                IF IsOptionLine(line)
                THEN HandleOptionLine(seen)
                ELSE IF Malformed(line)
                THEN [seen EXCEPT !.raised = InstallationError(line)]
                ELSE [seen EXCEPT
                        !.requirements =
                            Append(@, install_req_from_parsed_requirement(
                                        ParsedRequirement(line, constraint),
                                        user_supplied)),
                        !.require_hashes = @ \/ line.kind = "hash"]
         IN  FileLinesEagerHashes(next, Tail(lines), constraint, user_supplied)

RECURSIVE FileLines(_, _, _, _)
\* the inner loop over parse_requirements(filename, constraint=...): the
\* generator handles an option line when it reaches it, and the loop body
\* builds the requirement of a requirement line
FileLines(st, lines, constraint, user_supplied) ==
    IF lines = <<>> \/ st.raised # NoError THEN st
    ELSE LET line == Head(lines)
             seen == [st EXCEPT !.parsed = Append(@, line.text)]
             next ==
                IF IsOptionLine(line)
                THEN HandleOptionLine(seen)
                ELSE IF Malformed(line)
                THEN [seen EXCEPT !.raised = InstallationError(line)]
                ELSE [seen EXCEPT !.requirements =
                        Append(@, install_req_from_parsed_requirement(
                                    ParsedRequirement(line, constraint),
                                    user_supplied))]
         IN  FileLines(next, Tail(lines), constraint, user_supplied)

RECURSIVE ConstraintsLoop(_, _)
\* for filename in options.constraints: ... user_supplied=False
ConstraintsLoop(st, files) ==
    IF files = <<>> \/ st.raised # NoError THEN st
    ELSE ConstraintsLoop(FileLines(st, Head(files), TRUE, FALSE), Tail(files))

RECURSIVE ArgsLoop(_, _)
\* for req in args: install_req_from_line(..., user_supplied=True)
ArgsLoop(st, reqs) ==
    IF reqs = <<>> \/ st.raised # NoError THEN st
    ELSE LET req == Head(reqs)
             seen == [st EXCEPT !.parsed = Append(@, req.text)]
             next ==
                IF Malformed(req)
                THEN [seen EXCEPT !.raised = InstallationError(req)]
                ELSE [seen EXCEPT !.requirements =
                        Append(@, install_req_from_line(req, TRUE))]
         IN  ArgsLoop(next, Tail(reqs))

RECURSIVE EditablesLoop(_, _)
\* for req in options.editables: install_req_from_editable(..., user_supplied=True)
EditablesLoop(st, reqs) ==
    IF reqs = <<>> \/ st.raised # NoError THEN st
    ELSE LET req == Head(reqs)
             seen == [st EXCEPT !.parsed = Append(@, req.text)]
             next ==
                IF Malformed(req)
                THEN [seen EXCEPT !.raised = InstallationError(req)]
                ELSE [seen EXCEPT !.requirements =
                        Append(@, install_req_from_editable(req, TRUE))]
         IN  EditablesLoop(next, Tail(reqs))

RECURSIVE RequirementsLoop(_, _)
\* for filename in options.requirements: ... user_supplied=True
RequirementsLoop(st, files) ==
    IF files = <<>> \/ st.raised # NoError THEN st
    ELSE RequirementsLoop(FileLines(st, Head(files), FALSE, TRUE), Tail(files))

AnyHashOptions(reqs) == \E i \in 1..Len(reqs) : reqs[i].has_hash_options

\* DeriveRequireHashes, but assigning the flag instead of only raising it
DeriveRequireHashesAssign(st) ==
    IF st.raised # NoError THEN st
    ELSE [st EXCEPT !.require_hashes = AnyHashOptions(st.requirements)]

\* if any(req.has_hash_options for req in requirements):
\*     options.require_hashes = True
DeriveRequireHashes(st) ==
    IF st.raised # NoError THEN st
    ELSE IF AnyHashOptions(st.requirements)
    THEN [st EXCEPT !.require_hashes = TRUE]
    ELSE st

FindLinksMessage(name, links) ==
    "You must give at least one requirement to " \o name
        \o " (maybe you meant \"pip " \o name \o " " \o Join(links, " ") \o "\"?)"

HelpMessage(name) ==
    "You must give at least one requirement to " \o name
        \o " (see \"pip help " \o name \o "\")"

CommandError(msg) == [type |-> "CommandError", msg |-> msg]

\* CheckEmpty, but with the two messages the wrong way round
CheckEmptySwapped(st, a, opts) ==
    IF st.raised # NoError THEN st
    ELSE IF ~(a # <<>> \/ opts.editables # <<>> \/ opts.requirements # <<>>)
    THEN IF opts.find_links = <<>>
         THEN [st EXCEPT !.raised =
                 CommandError(FindLinksMessage(CommandName, opts.find_links))]
         ELSE [st EXCEPT !.raised = CommandError(HelpMessage(CommandName))]
    ELSE st

\* if not (args or options.editables or options.requirements): raise ...
CheckEmpty(st, a, opts) ==
    IF st.raised # NoError THEN st
    ELSE IF ~(a # <<>> \/ opts.editables # <<>> \/ opts.requirements # <<>>)
    THEN IF opts.find_links # <<>>
         THEN [st EXCEPT !.raised =
                 CommandError(FindLinksMessage(CommandName, opts.find_links))]
         ELSE [st EXCEPT !.raised = CommandError(HelpMessage(CommandName))]
    ELSE st

\* GetRequirements, but with the editables loop ahead of the positional one
GetRequirementsEditablesFirst(a, opts) ==
    CheckEmpty(
        DeriveRequireHashes(
            RequirementsLoop(
                ArgsLoop(
                    EditablesLoop(
                        ConstraintsLoop(GrStart(opts), opts.constraints),
                        opts.editables),
                    a),
                opts.requirements)),
        a, opts)

GetRequirements(a, opts) ==
    CheckEmpty(
        DeriveRequireHashes(
            RequirementsLoop(
                EditablesLoop(
                    ArgsLoop(
                        ConstraintsLoop(GrStart(opts), opts.constraints),
                        a),
                    opts.editables),
                opts.requirements)),
        a, opts)

(***************************************************************************)
(* The external resolver and the resolved set.  An entry's comes_from is   *)
(* None (0) or the position of the entry that introduced it.               *)
(***************************************************************************)
Urls == {"https://h/a.whl", "https://h/b.whl"}
Specifiers == {"", "==1.0"}

Entry(i, spec, url, from) ==
    [name      |-> "pkg" \o Digit[i],
     specifier |-> spec,
     link      |-> [ext |-> ".whl", filename |-> "pkg" \o Digit[i] \o ".whl",
                    comes_from |-> "https://h/simple/", url |-> url],
     comes_from |-> from]

ResolvedSets(n, specifiers, urls) ==
    UNION {
        {[i \in 1..k |-> Entry(i, sp[i], u[i], cf[i])] :
            sp \in [1..k -> specifiers], u \in [1..k -> urls],
            cf \in [1..k -> 0..k]}
        : k \in 0..n}

ResolutionErrors == {"ResolutionImpossible", "DistributionNotFound"}

Outcomes(n) ==
    {[fails |-> TRUE, error |-> e, set |-> <<>>] : e \in ResolutionErrors}
        \cup {[fails |-> FALSE, error |-> "", set |-> s] :
                s \in ResolvedSets(n, {"==1.0"}, {"https://h/a.whl"})}

NoOutcome == [fails |-> FALSE, error |-> "", set |-> <<>>]

(***************************************************************************)
(* _output                                                                 *)
(***************************************************************************)
BeginLine == "--- RESOLVED-BEGIN ---"
EndLine == "--- RESOLVED-END ---"

\* ComesFromUrl, but reading the entry's own link
ComesFromUrlOwnLink(set, req) ==
    IF req.comes_from # 0 THEN req.link.url ELSE None

\* f'{req.comes_from.link.url if req.comes_from else None}'
ComesFromUrl(set, req) ==
    IF req.comes_from # 0 THEN set[req.comes_from].link.url ELSE None

\* the body of the for loop of _output: the lines printed for one entry
EntryLines(set, req) ==
    << "name: " \o req.name,
       "specifier: " \o req.specifier,
       "link.ext: " \o req.link.ext,
       "link.filename: " \o req.link.filename,
       "link.comes_from: " \o req.link.comes_from,
       "link.url: " \o req.link.url,
       "comes_from.link.url: " \o ComesFromUrl(set, req) >>

(***************************************************************************)
(* Initial states                                                          *)
(***************************************************************************)
Options(cs, es, rs, fl, rh, nc) ==
    [constraints |-> cs, editables |-> es, requirements |-> rs,
     find_links |-> fl, require_hashes |-> rh, no_clean |-> nc]

\* the command line: every combination of sources with at most maxItems
\* items in at most maxFiles files per file option
Inputs(maxItems, maxFiles, cKinds, rKinds, noClean) ==
    \E shapeC \in Shapes(maxFiles, maxItems) :
    \E shapeR \in Shapes(maxFiles, maxItems - Sum(shapeC)) :
    \E nA \in 0..(maxItems - Sum(shapeC) - Sum(shapeR)) :
    \E nE \in 0..(maxItems - Sum(shapeC) - Sum(shapeR) - nA) :
    \E kC \in [1..Sum(shapeC) -> cKinds] :
    \E kR \in [1..Sum(shapeR) -> rKinds] :
    \E kA \in [1..nA -> SpecifierKinds] :
    \E kE \in [1..nE -> SpecifierKinds] :
    \E fl \in FindLinksChoices :
    \E rh \in BOOLEAN :
    \E nc \in noClean :
        /\ args = MkSpecifiers("a", kA)
        /\ options = Options(MkFiles("c", shapeC, kC), MkSpecifiers("e", kE),
                             MkFiles("r", shapeR, kR), fl, rh, nc)
        /\ require_hashes0 = rh

Fresh ==
    /\ requirements = <<>>
    /\ parsed = <<>>
    /\ raised = NoError
    /\ stdout = <<>>
    /\ req_tracker = "none"
    /\ directory = [state |-> "none", delete |-> FALSE]
    /\ preparer = [built |-> FALSE, require_hashes |-> FALSE]
    /\ resolver = [built |-> FALSE, require_hashes |-> FALSE]
    /\ resolver_calls = 0
    /\ printed = 0
    /\ status = <<>>

\* the command is run: `pip resolve ...`
InitRun ==
    /\ entry = "run"
    /\ pc = "run"
    /\ Inputs(RunItems, RunFiles, RunKinds, RunKinds, BOOLEAN)
    /\ outcome \in Outcomes(RunEntries)
    /\ requirement_set = <<>>
    /\ Fresh

\* get_requirements is called on its own
InitGetRequirements ==
    /\ entry = "get_requirements"
    /\ pc = "get_requirements"
    /\ Inputs(MaxItems, MaxFiles, ConstraintKinds, RequirementKinds, {FALSE})
    /\ outcome = NoOutcome
    /\ requirement_set = <<>>
    /\ Fresh

\* _output is called on its own with a resolved set
InitOutput ==
    /\ entry = "_output"
    /\ pc = "output_begin"
    /\ args = <<>>
    /\ options = Options(<<>>, <<>>, <<>>, <<>>, FALSE, FALSE)
    /\ require_hashes0 = FALSE
    /\ outcome = NoOutcome
    /\ requirement_set \in ResolvedSets(MaxEntries, Specifiers, Urls)
    /\ Fresh

(***************************************************************************)
(* run and resolve                                                         *)
(***************************************************************************)
MissingArgument == CommandError("Missing required argument (resolve query).")

\* run: if not args: raise CommandError(...); self.resolve(options, args)
Run ==
    /\ pc = "run"
    /\ IF args = <<>>
       THEN /\ raised' = MissingArgument
            /\ pc' = "exit"
       ELSE /\ pc' = "resolve"
            /\ UNCHANGED raised
    /\ UNCHANGED <<entry, args, options, require_hashes0, requirements, parsed,
                   stdout, req_tracker, directory, preparer, resolver,
                   resolver_calls, outcome, requirement_set, printed, status>>

\* TempDirectory, but with delete left at True
TempDirectoryAlwaysDelete(opts) == [state |-> "created", delete |-> TRUE]

\* TempDirectory(delete=not options.no_clean, kind="install", globally_managed=True)
TempDirectory(opts) == [state |-> "created", delete |-> ~opts.no_clean]

\* resolve, up to the construction of the temporary directory: the session,
\* the finder and the wheel cache hold no state of interest here
ResolveSetup ==
    /\ pc = "resolve"
    /\ req_tracker' = "entered"
    /\ directory' = TempDirectory(options)
    /\ pc' = "make_preparer"
    /\ UNCHANGED <<entry, args, options, require_hashes0, requirements, parsed,
                   raised, stdout, preparer, resolver, resolver_calls, outcome,
                   requirement_set, printed, status>>

\* preparer = self.make_requirement_preparer(..., options=options, ...)
MakePreparer ==
    /\ pc = "make_preparer"
    /\ preparer' = [built |-> TRUE, require_hashes |-> options.require_hashes]
    /\ pc' = "make_resolver"
    /\ UNCHANGED <<entry, args, options, require_hashes0, requirements, parsed,
                   raised, stdout, req_tracker, directory, resolver,
                   resolver_calls, outcome, requirement_set, printed, status>>

\* resolver = self.make_resolver(preparer=preparer, ..., options=options, ...)
MakeResolver ==
    /\ pc = "make_resolver"
    /\ resolver' = [built |-> TRUE, require_hashes |-> options.require_hashes]
    /\ pc' = "get_requirements"
    /\ UNCHANGED <<entry, args, options, require_hashes0, requirements, parsed,
                   raised, stdout, req_tracker, directory, preparer,
                   resolver_calls, outcome, requirement_set, printed, status>>

\* where control goes when get_requirements is left
AfterGetRequirements(e, exc) ==
    IF e = "run"
    THEN IF exc # NoError THEN "exit" ELSE "resolver_resolve"
    ELSE IF exc # NoError THEN "raised" ELSE "returned"

\* reqs = self.get_requirements(args, options, finder, session)
GetRequirementsCall ==
    /\ pc = "get_requirements"
    /\ LET st == GetRequirements(args, options)
       IN  /\ requirements' = st.requirements
           /\ options' = [options EXCEPT !.require_hashes = st.require_hashes]
           /\ parsed' = st.parsed
           /\ raised' = st.raised
           /\ pc' = AfterGetRequirements(entry, st.raised)
    /\ UNCHANGED <<entry, args, require_hashes0, stdout, req_tracker, directory,
                   preparer, resolver, resolver_calls, outcome, requirement_set,
                   printed, status>>

ResolutionError(e) == [type |-> e, msg |-> "raised by the resolver"]

\* ResolverResolve, but catching the resolver's failure and going on with an
\* empty set
ResolverResolveSwallow ==
    /\ pc = "resolver_resolve"
    /\ resolver_calls' = resolver_calls + 1
    /\ requirement_set' = IF outcome.fails THEN <<>> ELSE outcome.set
    /\ pc' = "output_begin"
    /\ UNCHANGED <<entry, args, options, require_hashes0, requirements, parsed,
                   raised, stdout, req_tracker, directory, preparer, resolver,
                   outcome, printed, status>>

\* requirement_set = resolver.resolve(reqs, check_supported_wheels=...)
ResolverResolve ==
    /\ pc = "resolver_resolve"
    /\ resolver_calls' = resolver_calls + 1
    /\ IF outcome.fails
       THEN /\ raised' = ResolutionError(outcome.error)
            /\ pc' = "exit"
            /\ UNCHANGED requirement_set
       ELSE /\ requirement_set' = outcome.set
            /\ pc' = "output_begin"
            /\ UNCHANGED raised
    /\ UNCHANGED <<entry, args, options, require_hashes0, requirements, parsed,
                   stdout, req_tracker, directory, preparer, resolver, outcome,
                   printed, status>>

\* print('--- RESOLVED-BEGIN ---')
OutputBegin ==
    /\ pc = "output_begin"
    /\ stdout' = Append(stdout, BeginLine)
    /\ printed' = 0
    /\ pc' = "output_loop"
    /\ UNCHANGED <<entry, args, options, require_hashes0, requirements, parsed,
                   raised, req_tracker, directory, preparer, resolver,
                   resolver_calls, outcome, requirement_set, status>>

\* one iteration of: for req in requirement_set.all_requirements
OutputEntry ==
    /\ pc = "output_loop"
    /\ printed < Len(requirement_set)
    /\ stdout' = stdout \o EntryLines(requirement_set, requirement_set[printed + 1])
    /\ printed' = printed + 1
    /\ UNCHANGED <<pc, entry, args, options, require_hashes0, requirements,
                   parsed, raised, req_tracker, directory, preparer, resolver,
                   resolver_calls, outcome, requirement_set, status>>

\* print('--- RESOLVED-END ---'), and _output returns
OutputEnd ==
    /\ pc = "output_loop"
    /\ printed = Len(requirement_set)
    /\ stdout' = Append(stdout, EndLine)
    /\ pc' = IF entry = "run" THEN "return" ELSE "returned"
    /\ UNCHANGED <<entry, args, options, require_hashes0, requirements, parsed,
                   raised, req_tracker, directory, preparer, resolver,
                   resolver_calls, outcome, requirement_set, printed, status>>

\* return SUCCESS
Return ==
    /\ pc = "return"
    /\ status' = <<SUCCESS>>
    /\ pc' = "exit"
    /\ UNCHANGED <<entry, args, options, require_hashes0, requirements, parsed,
                   raised, stdout, req_tracker, directory, preparer, resolver,
                   resolver_calls, outcome, requirement_set, printed>>

\* the command's main context is left, by return or by exception: the
\* contexts entered with enter_context are exited, and the globally managed
\* temporary directories are cleaned up when they were created with delete
Exit ==
    /\ pc = "exit"
    /\ req_tracker' = IF req_tracker = "entered" THEN "released" ELSE req_tracker
    /\ directory' =
          IF directory.state = "created"
          THEN [directory EXCEPT !.state = IF directory.delete THEN "deleted"
                                           ELSE "retained"]
          ELSE directory
    /\ pc' = "done"
    /\ UNCHANGED <<entry, args, options, require_hashes0, requirements, parsed,
                   raised, stdout, preparer, resolver, resolver_calls, outcome,
                   requirement_set, printed, status>>

(***************************************************************************)
(* Specifications                                                          *)
(***************************************************************************)
Next ==
    \/ Run
    \/ ResolveSetup
    \/ MakePreparer
    \/ MakeResolver
    \/ GetRequirementsCall
    \/ ResolverResolve
    \/ OutputBegin
    \/ OutputEntry
    \/ OutputEnd
    \/ Return
    \/ Exit

\* a run of the command
Spec == InitRun /\ [][Next]_vars

NextGetRequirements == GetRequirementsCall

\* a call of get_requirements
SpecGetRequirements == InitGetRequirements /\ [][NextGetRequirements]_vars

NextOutput ==
    \/ OutputBegin
    \/ OutputEntry
    \/ OutputEnd

\* a call of _output
SpecOutput == InitOutput /\ [][NextOutput]_vars

(***************************************************************************)
(* Properties of get_requirements                                          *)
(***************************************************************************)
\* get_requirements has been left, by return or by exception
Left == pc \in {"returned", "raised"}

\* the input items in source order: rank 1 constraint files, 2 positional
\* specifiers, 3 editables, 4 requirement files; f the file, l the line
SpecifierItems(rank, reqs) ==
    {[rank |-> rank, f |-> 0, l |-> i, kind |-> reqs[i].kind,
      text |-> reqs[i].text] : i \in 1..Len(reqs)}

ItemsOfFiles(rank, files) ==
    UNION {{[rank |-> rank, f |-> f, l |-> l, kind |-> files[f][l].kind,
             text |-> files[f][l].text] : l \in 1..Len(files[f])} :
           f \in 1..Len(files)}

AllItems ==
    ItemsOfFiles(1, options.constraints) \cup SpecifierItems(2, args)
        \cup SpecifierItems(3, options.editables)
        \cup ItemsOfFiles(4, options.requirements)

Before(a, b) ==
    \/ a.rank < b.rank
    \/ a.rank = b.rank /\ a.f < b.f
    \/ a.rank = b.rank /\ a.f = b.f /\ a.l < b.l

ItemOf(text) == CHOOSE k \in AllItems : k.text = text

\* the items that stand for a requirement (an option line does not)
RequirementItems == {k \in AllItems : k.kind # "opt"}

\* C1: when get_requirements returns, the returned list holds exactly one
\* record per requirement item of the input, in source order: constraint
\* files (file order, line order), positional specifiers, editables,
\* requirement files (file order, line order); nothing is dropped,
\* duplicated or reordered.
C1_SourceOrderPreserved ==
    pc = "returned" =>
        /\ Len(requirements) = Cardinality(RequirementItems)
        /\ \A i \in 1..Len(requirements) :
              requirements[i].text \in {k.text : k \in RequirementItems}
        /\ \A i, j \in 1..Len(requirements) :
              i < j => Before(ItemOf(requirements[i].text),
                              ItemOf(requirements[j].text))

C1_Witness ==
    /\ pc = "returned"
    /\ Len(requirements) = 2
    /\ requirements[1].constraint
    /\ requirements[2].user_supplied

\* C2: once get_requirements has built the list (it returned, or raised the
\* empty-input CommandError), options.require_hashes is true whenever some
\* record of the list has hash options, constraint records included; and a
\* flag that was true before the call is still true after it, however the
\* call ended.
C2_RequireHashesIsMonotonicOr ==
    Left =>
        /\ require_hashes0 => options.require_hashes
        /\ (raised.type # "InstallationError"
              /\ \E i \in 1..Len(requirements) : requirements[i].has_hash_options)
           => options.require_hashes

C2_Witness ==
    /\ pc = "returned"
    /\ ~require_hashes0
    /\ options.require_hashes
    /\ \E i \in 1..Len(requirements) :
          requirements[i].has_hash_options /\ requirements[i].constraint
    /\ \A i \in 1..Len(requirements) :
          requirements[i].has_hash_options => ~requirements[i].user_supplied

NoActionableInput ==
    args = <<>> /\ options.editables = <<>> /\ options.requirements = <<>>

FindLinksVariant ==
    "You must give at least one requirement to resolve "
        \o "(maybe you meant \"pip resolve ./links ./more\"?)"

HelpVariant ==
    "You must give at least one requirement to resolve (see \"pip help resolve\")"

IsEmptyInputError(exc) ==
    /\ exc.type = "CommandError"
    /\ options.find_links # <<>> => exc.msg = FindLinksVariant
    /\ options.find_links = <<>> => exc.msg = HelpVariant

MalformedItems(items) == {k \in items : k.kind = "bad"}

FirstOf(items) == CHOOSE k \in items : \A o \in items : o = k \/ Before(k, o)

\* C3 as stated: with no positional specifier, editable or requirement file,
\* get_requirements fails with the empty-input CommandError whatever the
\* constraint files hold, with the find-links message exactly when
\* find_links is non-empty.
C3_AsStated ==
    (Left /\ NoActionableInput) => (pc = "raised" /\ IsEmptyInputError(raised))

\* C3 amended: with no positional specifier, editable or requirement file,
\* get_requirements never returns; it raises the empty-input CommandError
\* (find-links message exactly when find_links is non-empty, help message
\* exactly when it is empty) when every constraint-file line is well formed,
\* and the InstallationError of the first malformed constraint line
\* otherwise.
C3_EmptyInputFails ==
    (Left /\ NoActionableInput) =>
        /\ pc = "raised"
        /\ IF MalformedItems(AllItems) = {}
           THEN IsEmptyInputError(raised)
           ELSE /\ raised.type = "InstallationError"
                /\ raised.msg = "Invalid requirement: "
                                    \o FirstOf(MalformedItems(AllItems)).text

C3_Witness ==
    /\ pc = "raised"
    /\ NoActionableInput
    /\ raised.type = "CommandError"
    /\ raised.msg = FindLinksVariant
    /\ Len(requirements) = 2

\* C9 as stated: every returned record that is a constraint has
\* user_supplied = false, every returned editable record is not a
\* constraint, and a record is user-supplied exactly when it does not come
\* from a constraint file.
C9_AsStated ==
    pc = "returned" =>
        \A i \in 1..Len(requirements) :
            /\ requirements[i].constraint => ~requirements[i].user_supplied
            /\ requirements[i].editable => ~requirements[i].constraint
            /\ requirements[i].user_supplied
                  <=> ItemOf(requirements[i].text).rank # 1

\* C10 as stated: when get_requirements raises, options.require_hashes is
\* what it was before the call.  Stated for the inputs whose files hold no
\* --require-hashes option line, so that the only writer of the flag is
\* get_requirements itself.
C10_AsStated ==
    (pc = "raised" /\ \A k \in AllItems : k.kind # "opt")
        => options.require_hashes = require_hashes0

OptionLineIn(texts) ==
    \E i \in 1..Len(texts) : ItemOf(texts[i]).kind = "opt"

\* C10 amended: an InstallationError aborts at the first malformed item
\* (every item up to it was handed to the parser, none after it) before the
\* hash derivation has run, so the hash options of the records built so far
\* do not set the flag: it is its prior value, or true when the parser met
\* a --require-hashes option line.  The empty-input CommandError is raised
\* after the derivation: the flag is then true exactly when it was true
\* before, or a --require-hashes line was met, or a record of the list has
\* hash options.
C10_FlagAfterFailure ==
    pc = "raised" =>
        IF raised.type = "InstallationError"
        THEN /\ MalformedItems(AllItems) # {}
             /\ LET bad == FirstOf(MalformedItems(AllItems))
                IN  /\ parsed # <<>>
                    /\ parsed[Len(parsed)] = bad.text
                    /\ \A k \in AllItems :
                          (\E i \in 1..Len(parsed) : parsed[i] = k.text)
                              <=> ~Before(bad, k)
             /\ options.require_hashes
                   <=> (require_hashes0 \/ OptionLineIn(parsed))
        ELSE options.require_hashes
                <=> \/ require_hashes0
                    \/ OptionLineIn(parsed)
                    \/ \E i \in 1..Len(requirements) :
                          requirements[i].has_hash_options

C10_Witness ==
    /\ pc = "raised"
    /\ raised.type = "InstallationError"
    /\ \E i \in 1..Len(requirements) : requirements[i].has_hash_options
    /\ ~options.require_hashes

(***************************************************************************)
(* Properties of _output                                                   *)
(***************************************************************************)
\* the provenance line of entry i of the set
ProvenanceLine(set, i) ==
    "comes_from.link.url: "
        \o (IF set[i].comes_from = 0 THEN "None"
            ELSE set[set[i].comes_from].link.url)

\* C4 as stated: _output prints the BEGIN line, one block of six lines per
\* entry whose last line is the provenance line, and the END line: 2 + 6n
\* lines.
C4_AsStated ==
    (entry = "_output" /\ pc = "returned") =>
        LET n == Len(requirement_set)
        IN  /\ Len(stdout) = 2 + 6 * n
            /\ stdout[1] = BeginLine
            /\ stdout[Len(stdout)] = EndLine
            /\ \A i \in 1..n :
                  stdout[1 + 6 * i] = ProvenanceLine(requirement_set, i)

\* C4 amended: _output prints the BEGIN line, then per entry in iteration
\* order one block of exactly seven lines (name, specifier, link.ext,
\* link.filename, link.comes_from, link.url, comes_from.link.url), then the
\* END line: 2 + 7n lines.  The last line of a block is the link URL of the
\* entry's comes_from entry, or the text None when it has none.  For n = 0
\* only the two sentinel lines are printed.
C4_SevenLineBlocks ==
    (entry = "_output" /\ pc = "returned") =>
        LET n == Len(requirement_set)
        IN  /\ Len(stdout) = 2 + 7 * n
            /\ stdout[1] = "--- RESOLVED-BEGIN ---"
            /\ stdout[Len(stdout)] = "--- RESOLVED-END ---"
            /\ \A i \in 1..n :
                  LET req == requirement_set[i]
                      at == 1 + 7 * (i - 1)
                  IN  /\ stdout[at + 1] = "name: " \o req.name
                      /\ stdout[at + 2] = "specifier: " \o req.specifier
                      /\ stdout[at + 3] = "link.ext: " \o req.link.ext
                      /\ stdout[at + 4] = "link.filename: " \o req.link.filename
                      /\ stdout[at + 5] = "link.comes_from: " \o req.link.comes_from
                      /\ stdout[at + 6] = "link.url: " \o req.link.url
                      /\ stdout[at + 7] = ProvenanceLine(requirement_set, i)

C4_Witness ==
    /\ entry = "_output"
    /\ pc = "returned"
    /\ Len(requirement_set) = 2
    /\ requirement_set[1].comes_from = 0
    /\ requirement_set[2].comes_from = 1
    /\ requirement_set[1].link.url # requirement_set[2].link.url
    /\ Len(stdout) = 16

(***************************************************************************)
(* Properties of a run of the command                                      *)
(***************************************************************************)
Acquired == req_tracker # "none" /\ directory.state # "none"

\* the run is at a position where one of its steps can be taken: the guards
\* of the actions of Next
CanStep ==
    \/ pc \in {"run", "resolve", "make_preparer", "make_resolver",
               "get_requirements", "resolver_resolve", "output_begin",
               "return", "exit"}
    \/ pc = "output_loop" /\ printed <= Len(requirement_set)

\* C5 as stated: when a run ends, whichever way, the requirement tracker and
\* the temporary build directory it acquired have been released, whatever
\* --no-clean says.
C5_AsStated ==
    (pc = "done" /\ Acquired) =>
        (req_tracker = "released" /\ directory.state = "deleted")

\* C5 amended: every run ends, and when it ends (normal completion,
\* InstallationError or CommandError of get_requirements, resolver failure)
\* the requirement tracker it entered has been released; the temporary build
\* directory it created has been deleted exactly when --no-clean was not
\* given, and is kept when it was.
C5_ReleasedUnlessNoClean ==
    /\ pc # "done" => CanStep
    /\ pc = "done" =>
          /\ req_tracker \in {"none", "released"}
          /\ directory.state \in {"none", "deleted", "retained"}
          /\ directory.state = "deleted" => ~options.no_clean
          /\ directory.state = "retained" => options.no_clean

C5_Witness ==
    /\ pc = "done"
    /\ raised.type = "DistributionNotFound"
    /\ req_tracker = "released"
    /\ directory.state = "retained"
    /\ options.no_clean

\* C6: a failure of the resolver leaves run as it was raised (same type and
\* message), after one invocation, with nothing printed and no status
\* returned; run returns SUCCESS only after the resolver, invoked once,
\* produced the resolved set and _output printed it through the END line.
C6_ResolverFailurePropagates ==
    /\ (outcome.fails /\ resolver_calls > 0) =>
          /\ resolver_calls = 1
          /\ raised = [type |-> outcome.error, msg |-> "raised by the resolver"]
          /\ stdout = <<>>
          /\ status = <<>>
          /\ pc \in {"exit", "done"}
    /\ status = <<SUCCESS>> =>
          /\ ~outcome.fails
          /\ resolver_calls = 1
          /\ raised = NoError
          /\ requirement_set = outcome.set
          /\ Len(stdout) = 2 + 7 * Len(requirement_set)
          /\ stdout[1] = "--- RESOLVED-BEGIN ---"
          /\ stdout[Len(stdout)] = "--- RESOLVED-END ---"

C6_Witness ==
    /\ pc = "done"
    /\ outcome.fails
    /\ raised.type = "ResolutionImpossible"
    /\ requirements # <<>>
    /\ stdout = <<>>

\* C7 as stated: whenever an aggregated record has hash options, the flag
\* was already true when the preparer and the resolver were built from the
\* options, and is true when the resolver is invoked.
C7_AsStated ==
    (/\ pc \in {"resolver_resolve", "output_begin", "output_loop", "return"}
     /\ \E i \in 1..Len(requirements) : requirements[i].has_hash_options)
        => /\ preparer.built /\ preparer.require_hashes
           /\ resolver.built /\ resolver.require_hashes
           /\ options.require_hashes

\* C8 as stated, for well-formed inputs: a run fails for lack of input
\* (CommandError) only when no positional specifier, editable or requirement
\* file was given; a run with no positional specifier but an editable or a
\* requirement file does not fail so, and reaches the resolver.
C8_AsStated ==
    MalformedItems(AllItems) = {} =>
        /\ raised.type = "CommandError" => NoActionableInput
        /\ (/\ pc = "done"
            /\ args = <<>>
            /\ options.editables # <<>> \/ options.requirements # <<>>)
              => resolver_calls = 1

====
